---- MODULE Spec2Model ----
(***************************************************************************)
(* Order-management backend (FastAPI handlers over an SQLite store).       *)
(* The four tables are the state; every handler of main.py is one action   *)
(* that runs its statements on a working copy of the store inside          *)
(* db_connection, which commits on normal exit and rolls back on any       *)
(* exception.                                                              *)
(***************************************************************************)
EXTENDS Integers, Sequences, FiniteSets, TLC

VARIABLES customers, items, orders, item_list, req, resp, pre, threads

vars == <<customers, items, orders, item_list, req, resp, pre, threads>>

(***************************************************************************)
(* Bounds of the model: the largest id a table hands out, and the longest  *)
(* item list of a request.                                                 *)
(***************************************************************************)
MaxCustId == 2
MaxItemId == 2
MaxOrderId == 2
MaxItems == 2

CustIds == 1..MaxCustId
ItemIds == 1..MaxItemId
OrderIds == 1..MaxOrderId

\* A JSON value of the price field: a number, integer or decimal, or null.
\* float() keeps the value and gives the decimal form.
float(v) == [kind |-> "float", value |-> v.value]

\* The values the requests carry.  A name, a price and the clock reading
\* decide no branch of a handler; phones and item names are compared by the
\* UNIQUE constraints, notes are copied.
Names == {"Ann"}
Phones == {"111-111-1111", "222-222-2222"}
ItemNames == {"Tea", "Pie"}
Prices == {float([kind |-> "int", value |-> 3])}
Notes == {"NULL", "rush"}
Times == {1}

\* Optional[int]: <<>> is None, <<k>> is the integer k.
OptIds(S) == {<<>>} \cup {<<k>> : k \in S}

ItemLists == UNION {[1..n -> ItemIds] : n \in 0..MaxItems}

(***************************************************************************)
(* Pydantic request models.                                                *)
(***************************************************************************)
Customer == [id : OptIds({1}), name : Names, phone : Phones]

Item == [id : OptIds({1}), name : ItemNames, price : Prices]

\* A text is a sequence of characters; \d of the patterns is a digit.
Digit == {"0", "1", "2", "3", "4", "5", "6", "7", "8", "9"}

IsDigits(text) == Len(text) > 0 /\ \A a \in 1..Len(text) : text[a] \in Digit

\* re.fullmatch(r"\d{3}-\d{3}-\d{4}", v)
phone_pattern(text) ==
    /\ Len(text) = 12
    /\ text[4] = "-"
    /\ text[8] = "-"
    /\ \A a \in (1..12) \ {4, 8} : text[a] \in Digit

\* Customer.validate_phone: the phone is returned as it is when it has the
\* form 111-111-1111, and ValueError is raised otherwise.
validate_phone(v) == [ok |-> phone_pattern(v), value |-> v]

\* re.fullmatch(r"\d+(\.\d+)?", v)
price_pattern(text) ==
    \/ IsDigits(text)
    \/ \E dot \in 2..(Len(text) - 1) :
           /\ text[dot] = "."
           /\ IsDigits(SubSeq(text, 1, dot - 1))
           /\ IsDigits(SubSeq(text, dot + 1, Len(text)))

\* float(v) of a text the pattern matched: the number its digits before the
\* dot denote (the model's prices are whole numbers).
RECURSIVE whole(_)
whole(text) ==
    IF text = <<>> \/ Head(text) = "." THEN <<>>
    ELSE <<Head(text)>> \o whole(Tail(text))

RECURSIVE number(_)
number(digits) ==
    IF digits = <<>> THEN 0
    ELSE 10 * number(SubSeq(digits, 1, Len(digits) - 1))
         + (CHOOSE d \in 0..9 : ToString(d) = digits[Len(digits)])

float_of_text(v) == [kind |-> "float", value |-> number(whole(v.text))]

\* Item.validate_price: an int or a float is returned as a float, whatever its
\* sign; a string is accepted when it is digits with at most one dot between
\* them; anything else raises ValueError.
validate_price(v) ==
    IF v.kind \in {"int", "float"}
    THEN [ok |-> TRUE, value |-> float(v)]
    ELSE IF v.kind = "str" /\ price_pattern(v.text)
    THEN [ok |-> TRUE, value |-> float_of_text(v)]
    ELSE [ok |-> FALSE, value |-> v]

\* Order.timestamp is accepted by the model class and read by no handler.
Order == [id : OptIds({1}), cust_id : CustIds, notes : Notes, items : ItemLists]

\* The bodies sent to the create handlers, which never read the id.
NoId(Model) == {m \in Model : m.id = <<>>}

(***************************************************************************)
(* The store: schema of init_db.py.                                        *)
(***************************************************************************)
DB == [customers |-> customers, items |-> items, orders |-> orders,
       item_list |-> item_list]

EmptyTable == [k \in {} |-> 0]

Max(S) == CHOOSE m \in S : \A k \in S : k <= m

\* id INTEGER PRIMARY KEY without AUTOINCREMENT: the new rowid is one more
\* than the largest rowid now in the table.
lastrowid(table) == IF DOMAIN table = {} THEN 1 ELSE Max(DOMAIN table) + 1

Put(table, k, row) == [j \in DOMAIN table \cup {k} |-> IF j = k THEN row ELSE table[j]]

Drop(table, k) == [j \in DOMAIN table \ {k} |-> table[j]]

\* a customers table whose phone column is not declared UNIQUE
customers_unique_off(table) == TRUE

\* phone CHAR(10) NOT NULL UNIQUE
customers_unique(table) ==
    \A a, b \in DOMAIN table : table[a].phone = table[b].phone => a = b

\* an items table whose name column is not declared UNIQUE
items_unique_off(table) == TRUE

\* name CHAR(64) NOT NULL UNIQUE
items_unique(table) ==
    \A a, b \in DOMAIN table : table[a].name = table[b].name => a = b

\* The rows of item_list are kept per order_id, each order's rows as the
\* sequence of their item_id in rowid order: every statement of main.py that
\* reads item_list selects by order_id or asks whether an item_id occurs.
\* An order_id without rows is not in the domain.
rows_of(rows, order_id) == IF order_id \in DOMAIN rows THEN rows[order_id] ELSE <<>>

\* INSERT INTO item_list (order_id, item_id) VALUES (?, ?)
insert_row(rows, order_id, item_id) ==
    [o \in DOMAIN rows \cup {order_id} |->
        IF o = order_id THEN Append(rows_of(rows, o), item_id) ELSE rows[o]]

\* DELETE FROM item_list WHERE order_id = ?
delete_rows(rows, order_id) == [o \in DOMAIN rows \ {order_id} |-> rows[o]]

\* SELECT 1 FROM item_list WHERE item_id = ? LIMIT 1
item_in_use(rows, item_id) ==
    \E o \in DOMAIN rows : \E a \in 1..Len(rows[o]) : rows[o][a] = item_id

\* UNIQUE(order_id, item_id)
\* an item_list table without UNIQUE(order_id, item_id)
item_list_unique_off(rows) == TRUE

item_list_unique(rows) ==
    \A o \in DOMAIN rows : \A a, b \in 1..Len(rows[o]) : rows[o][a] = rows[o][b] => a = b

\* a connection on which PRAGMA foreign_keys = ON was not executed
item_list_fk_off(db) == TRUE

\* FOREIGN KEY(order_id) REFERENCES orders(id), FOREIGN KEY(item_id) REFERENCES items(id)
item_list_fk(db) ==
    \A o \in DOMAIN db.item_list :
        /\ o \in DOMAIN db.orders
        /\ \A a \in 1..Len(db.item_list[o]) : db.item_list[o][a] \in DOMAIN db.items

\* The constraints SQLite checks at the end of every statement.
constraints(db) ==
    /\ customers_unique(db.customers)
    /\ items_unique(db.items)
    /\ item_list_unique(db.item_list)
    /\ item_list_fk(db)

(***************************************************************************)
(* Outcome of the code run inside "with db_connection()": the working      *)
(* store, and how the block ended.                                         *)
(***************************************************************************)
NoBody == [kind |-> "none"]

Return(db, body) ==
    [db |-> db, exc |-> "none", status |-> 200, detail |-> "", ids |-> <<>>,
     body |-> body]

HTTPException(db, status, detail, ids) ==
    [db |-> db, exc |-> "HTTPException", status |-> status, detail |-> detail,
     ids |-> ids, body |-> NoBody]

\* sqlite3.IntegrityError out of a statement
IntegrityError(db) ==
    [db |-> db, exc |-> "IntegrityError", status |-> 500, detail |-> "", ids |-> <<>>,
     body |-> NoBody]

\* TypeError out of format_order_rows_to_dict when fetchone() returned None
TypeError(db) ==
    [db |-> db, exc |-> "TypeError", status |-> 500, detail |-> "", ids |-> <<>>,
     body |-> NoBody]

\* One SQL statement: it takes effect when the result meets the constraints
\* and is undone, raising IntegrityError, when it does not.
execute(db, after) == IF constraints(after) THEN [ok |-> TRUE, db |-> after]
                      ELSE [ok |-> FALSE, db |-> db]

\* a context manager that commits whatever the block has executed
db_connection_no_rollback(db, out) == out.db

\* commit on normal exit, rollback on any exception
db_connection(db, out) == IF out.exc = "none" THEN out.db ELSE db

(***************************************************************************)
(* Rows as the handlers shape them.                                        *)
(***************************************************************************)
customer_dict(db, id) ==
    [kind |-> "customer", id |-> id, name |-> db.customers[id].name,
     phone |-> db.customers[id].phone]

item_dict(db, id) ==
    [kind |-> "item", id |-> id, name |-> db.items[id].name,
     price |-> db.items[id].price]

Message(text) == [kind |-> "message", message |-> text]

\* The response of a handler whose except clauses turn sqlite3.IntegrityError
\* into the given status and detail and any other exception into 500 with the
\* given detail; a return value and an HTTPException pass unchanged.
Response(out, status, detail, error) ==
    IF out.exc = "IntegrityError"
    THEN [status |-> status, detail |-> detail, ids |-> <<>>, body |-> NoBody]
    ELSE IF out.exc = "TypeError"
    THEN [status |-> 500, detail |-> error, ids |-> <<>>, body |-> NoBody]
    ELSE [status |-> out.status, detail |-> out.detail, ids |-> out.ids,
          body |-> out.body]

\* One request served: the store after db_connection has committed or rolled
\* back, the request, its response and the store as it was before.
Serve(r, out, response) ==
    /\ LET after == db_connection(DB, out)
       IN  /\ customers' = after.customers
           /\ items' = after.items
           /\ orders' = after.orders
           /\ item_list' = after.item_list
    /\ req' = r
    /\ resp' = response
    /\ pre' = DB
    /\ UNCHANGED threads

(***************************************************************************)
(* Customers                                                               *)
(***************************************************************************)
\* create_customer that answers with the id the next row would get
create_customer_body_next_id(db, customer) ==
    LET customer_id == lastrowid(db.customers)
        ins == execute(db, [db EXCEPT !.customers =
                   Put(@, customer_id, [name |-> customer.name, phone |-> customer.phone])])
    IN  IF ~ins.ok THEN IntegrityError(ins.db)
        ELSE Return(ins.db, [customer_dict(ins.db, customer_id)
                                 EXCEPT !.id = lastrowid(ins.db.customers)])

create_customer_body(db, customer) ==
    LET customer_id == lastrowid(db.customers)
        ins == execute(db, [db EXCEPT !.customers =
                   Put(@, customer_id, [name |-> customer.name, phone |-> customer.phone])])
    IN  IF ~ins.ok THEN IntegrityError(ins.db)
        ELSE Return(ins.db, customer_dict(ins.db, customer_id))

create_customer(customer) ==
    /\ req.op = "idle"
    /\ lastrowid(customers) <= MaxCustId
    /\ LET out == create_customer_body(DB, customer)
       IN  Serve([op |-> "create_customer", customer |-> customer], out,
                 Response(out, 400, "Error creating customer: Customer with this phone number already exists",
                          "Error creating customer"))

get_customer_body(db, customer_id) ==
    IF customer_id \in DOMAIN db.customers
    THEN Return(db, customer_dict(db, customer_id))
    ELSE HTTPException(db, 404, "Customer not found", <<>>)

get_customer(customer_id) ==
    /\ req.op = "idle"
    /\ LET out == get_customer_body(DB, customer_id)
       IN  Serve([op |-> "get_customer", customer_id |-> customer_id], out,
                 Response(out, 500, "Internal Server Error", "Internal Server Error"))

\* UPDATE customers SET phone = ? alone, the name left as it was
update_customer_body_phone_only(db, customer_id, customer) ==
    IF customer_id \notin DOMAIN db.customers
    THEN HTTPException(db, 404, "Customer not found", <<>>)
    ELSE LET upd == execute(db, [db EXCEPT !.customers[customer_id].phone =
                                     customer.phone])
         IN  IF ~upd.ok THEN IntegrityError(upd.db)
             ELSE Return(upd.db, customer_dict(upd.db, customer_id))

update_customer_body(db, customer_id, customer) ==
    IF customer_id \notin DOMAIN db.customers
    THEN HTTPException(db, 404, "Customer not found", <<>>)
    ELSE LET upd == execute(db, [db EXCEPT !.customers[customer_id] =
                        [name |-> customer.name, phone |-> customer.phone]])
         IN  IF ~upd.ok THEN IntegrityError(upd.db)
             ELSE Return(upd.db, customer_dict(upd.db, customer_id))

update_customer(customer_id, customer) ==
    /\ req.op = "idle"
    /\ LET out == IF customer.id # <<>> /\ customer.id[1] # customer_id
                  THEN HTTPException(DB, 400, "Customer ID in path and body must match", <<>>)
                  ELSE update_customer_body(DB, customer_id, customer)
       IN  Serve([op |-> "update_customer", customer_id |-> customer_id,
                  customer |-> customer], out,
                 Response(out, 400, "Error updating customer: Phone number must be unique",
                          "Error updating customer"))

\* delete_customer that reports success and leaves the row in place
delete_customer_body_row_kept(db, customer_id) ==
    IF customer_id \notin DOMAIN db.customers
    THEN HTTPException(db, 404, "Customer not found", <<>>)
    ELSE IF \E o \in DOMAIN db.orders : db.orders[o].cust_id = customer_id
    THEN HTTPException(db, 400, "Cannot delete customer with existing orders", <<>>)
    ELSE Return(db, Message("Customer deleted successfully"))

\* delete_customer without the check for orders of the customer
delete_customer_body_unguarded(db, customer_id) ==
    IF customer_id \notin DOMAIN db.customers
    THEN HTTPException(db, 404, "Customer not found", <<>>)
    ELSE LET del == execute(db, [db EXCEPT !.customers = Drop(@, customer_id)])
         IN  IF ~del.ok THEN IntegrityError(del.db)
             ELSE Return(del.db, Message("Customer deleted successfully"))

delete_customer_body(db, customer_id) ==
    IF customer_id \notin DOMAIN db.customers
    THEN HTTPException(db, 404, "Customer not found", <<>>)
    ELSE IF \E o \in DOMAIN db.orders : db.orders[o].cust_id = customer_id
    THEN HTTPException(db, 400, "Cannot delete customer with existing orders", <<>>)
    ELSE LET del == execute(db, [db EXCEPT !.customers = Drop(@, customer_id)])
         IN  IF ~del.ok THEN IntegrityError(del.db)
             ELSE Return(del.db, Message("Customer deleted successfully"))

delete_customer(customer_id) ==
    /\ req.op = "idle"
    /\ LET out == delete_customer_body(DB, customer_id)
       IN  Serve([op |-> "delete_customer", customer_id |-> customer_id], out,
                 Response(out, 500, "Error deleting customer", "Error deleting customer"))

(***************************************************************************)
(* Items                                                                   *)
(***************************************************************************)
create_item_body(db, item) ==
    LET item_id == lastrowid(db.items)
        ins == execute(db, [db EXCEPT !.items =
                   Put(@, item_id, [name |-> item.name, price |-> item.price])])
    IN  IF ~ins.ok THEN IntegrityError(ins.db)
        ELSE Return(ins.db, item_dict(ins.db, item_id))

create_item(item) ==
    /\ req.op = "idle"
    /\ lastrowid(items) <= MaxItemId
    /\ LET out == create_item_body(DB, item)
       IN  Serve([op |-> "create_item", item |-> item], out,
                 Response(out, 400, "Error creating item: Item name must be unique",
                          "Error creating item"))

get_item_body(db, item_id) ==
    IF item_id \in DOMAIN db.items
    THEN Return(db, item_dict(db, item_id))
    ELSE HTTPException(db, 404, "Item not found", <<>>)

get_item(item_id) ==
    /\ req.op = "idle"
    /\ LET out == get_item_body(DB, item_id)
       IN  Serve([op |-> "get_item", item_id |-> item_id], out,
                 Response(out, 500, "Internal Server Error", "Internal Server Error"))

\* an update that writes the new values into a new row and keeps the old one
update_item_body_new_row(db, item_id, item) ==
    IF item_id \notin DOMAIN db.items
    THEN HTTPException(db, 404, "Item not found", <<>>)
    ELSE LET upd == execute(db, [db EXCEPT !.items =
                        Put(@, lastrowid(db.items),
                            [name |-> item.name, price |-> item.price])])
         IN  IF ~upd.ok THEN IntegrityError(upd.db)
             ELSE Return(upd.db, item_dict(upd.db, lastrowid(db.items)))

\* an update that writes the row past the UNIQUE constraint on the name
update_item_body_unchecked(db, item_id, item) ==
    IF item_id \notin DOMAIN db.items
    THEN HTTPException(db, 404, "Item not found", <<>>)
    ELSE LET upd == [db EXCEPT !.items[item_id] =
                        [name |-> item.name, price |-> item.price]]
         IN  Return(upd, item_dict(upd, item_id))

update_item_body(db, item_id, item) ==
    IF item_id \notin DOMAIN db.items
    THEN HTTPException(db, 404, "Item not found", <<>>)
    ELSE LET upd == execute(db, [db EXCEPT !.items[item_id] =
                        [name |-> item.name, price |-> item.price]])
         IN  IF ~upd.ok THEN IntegrityError(upd.db)
             ELSE Return(upd.db, item_dict(upd.db, item_id))

update_item(item_id, item) ==
    /\ req.op = "idle"
    /\ LET out == IF item.id # <<>> /\ item.id[1] # item_id
                  THEN HTTPException(DB, 400, "Item ID in path and body must match", <<>>)
                  ELSE update_item_body(DB, item_id, item)
       IN  Serve([op |-> "update_item", item_id |-> item_id, item |-> item], out,
                 Response(out, 400, "Error updating item: Item name must be unique",
                          "Error updating item"))

\* delete_item that removes the rows referencing the item with it
delete_item_body_cascade(db, item_id) ==
    IF item_id \notin DOMAIN db.items
    THEN HTTPException(db, 404, "Item not found", <<>>)
    ELSE LET kept == [o \in DOMAIN db.item_list |->
                         SelectSeq(db.item_list[o], LAMBDA i : i # item_id)]
             rows == [o \in {x \in DOMAIN kept : kept[x] # <<>>} |-> kept[o]]
         IN  Return([db EXCEPT !.item_list = rows, !.items = Drop(@, item_id)],
                    Message("Item deleted successfully"))

\* delete_item without the check for rows that reference the item
delete_item_body_unguarded(db, item_id) ==
    IF item_id \notin DOMAIN db.items
    THEN HTTPException(db, 404, "Item not found", <<>>)
    ELSE LET del == execute(db, [db EXCEPT !.items = Drop(@, item_id)])
         IN  IF ~del.ok THEN IntegrityError(del.db)
             ELSE Return(del.db, Message("Item deleted successfully"))

delete_item_body(db, item_id) ==
    IF item_id \notin DOMAIN db.items
    THEN HTTPException(db, 404, "Item not found", <<>>)
    ELSE IF item_in_use(db.item_list, item_id)
    THEN HTTPException(db, 400, "Cannot delete item that is used in existing orders", <<>>)
    ELSE LET del == execute(db, [db EXCEPT !.items = Drop(@, item_id)])
         IN  IF ~del.ok THEN IntegrityError(del.db)
             ELSE Return(del.db, Message("Item deleted successfully"))

delete_item(item_id) ==
    /\ req.op = "idle"
    /\ LET out == delete_item_body(DB, item_id)
       IN  Serve([op |-> "delete_item", item_id |-> item_id], out,
                 Response(out, 500, "Error deleting item", "Error deleting item"))

(***************************************************************************)
(* Order composition                                                       *)
(***************************************************************************)
\* SELECT i.name, i.price FROM items AS i JOIN item_list AS il
\* ON i.id = il.item_id WHERE il.order_id = ?, shaped as a list of dicts.
RECURSIVE get_order_items_from(_, _, _)
get_order_items_from(db, order_id, a) ==
    IF a > Len(rows_of(db.item_list, order_id)) THEN <<>>
    ELSE LET item_id == rows_of(db.item_list, order_id)[a]
             rest == get_order_items_from(db, order_id, a + 1)
         IN  IF item_id \in DOMAIN db.items
             THEN <<[name |-> db.items[item_id].name,
                     price |-> db.items[item_id].price]>> \o rest
             ELSE rest

get_order_items(db, order_id) == get_order_items_from(db, order_id, 1)

\* SELECT o.id, o.timestamp, c.name, c.phone, o.notes FROM orders AS o
\* JOIN customers AS c ON c.id = o.cust_id WHERE o.id = ?: fetchone() gives
\* the row, or None (here <<>>) when the order or its customer is missing.
select_order(db, order_id) ==
    IF order_id \in DOMAIN db.orders /\ db.orders[order_id].cust_id \in DOMAIN db.customers
    THEN <<[id |-> order_id, timestamp |-> db.orders[order_id].timestamp,
            name |-> db.customers[db.orders[order_id].cust_id].name,
            phone |-> db.customers[db.orders[order_id].cust_id].phone,
            notes |-> db.orders[order_id].notes]>>
    ELSE <<>>

format_order_rows_to_dict(db, rows) ==
    [a \in 1..Len(rows) |->
        [kind |-> "order", id |-> rows[a].id, timestamp |-> rows[a].timestamp,
         name |-> rows[a].name, phone |-> rows[a].phone, notes |-> rows[a].notes,
         items |-> get_order_items(db, rows[a].id)]]

\* a validation that reports the first invalid id and stops
invalid_item_ids_first_invalid(db, item_ids) ==
    SubSeq(SelectSeq(item_ids, LAMBDA item_id : item_id \notin DOMAIN db.items), 1, 1)

\* a validation that looks at the first requested id only
invalid_item_ids_first_only(db, item_ids) ==
    SelectSeq(SubSeq(item_ids, 1, 1), LAMBDA item_id : item_id \notin DOMAIN db.items)

\* item_id for item_id in item_ids if item_id not in existing_item_ids
invalid_item_ids(db, item_ids) ==
    SelectSeq(item_ids, LAMBDA item_id : item_id \notin DOMAIN db.items)

\* for item_id in order.items: INSERT INTO item_list (order_id, item_id);
\* the loop ends at the first statement that raises.
RECURSIVE insert_items(_, _, _, _)
insert_items(db, order_id, item_ids, a) ==
    IF a > Len(item_ids) THEN [ok |-> TRUE, db |-> db]
    ELSE LET ins == execute(db, [db EXCEPT !.item_list =
                        insert_row(@, order_id, item_ids[a])])
         IN  IF ~ins.ok THEN ins
             ELSE insert_items(ins.db, order_id, item_ids, a + 1)

\* a response shaped before the item rows were written
reread_order_without_items(db, order_id) ==
    IF select_order(db, order_id) = <<>> THEN TypeError(db)
    ELSE Return(db, [format_order_rows_to_dict(db, select_order(db, order_id))[1]
                         EXCEPT !.items = <<>>])

\* The tail shared by create_order and update_order: re-read the order joined
\* with its customer and shape it; a missing row makes the shaping raise.
reread_order(db, order_id) ==
    IF select_order(db, order_id) = <<>> THEN TypeError(db)
    ELSE Return(db, format_order_rows_to_dict(db, select_order(db, order_id))[1])

(***************************************************************************)
(* Orders                                                                  *)
(***************************************************************************)
\* create_order that checks for an empty item list before it looks up the
\* customer
create_order_body_items_first(db, order, now) ==
    IF order.items = <<>>
    THEN HTTPException(db, 400, "Order must contain at least one item.", <<>>)
    ELSE IF order.cust_id \notin DOMAIN db.customers
    THEN HTTPException(db, 404, "Customer not found", <<>>)
    ELSE IF invalid_item_ids(db, order.items) # <<>>
    THEN HTTPException(db, 404, "Invalid item IDs", invalid_item_ids(db, order.items))
    ELSE LET order_id == lastrowid(db.orders)
             ins == execute(db, [db EXCEPT !.orders =
                        Put(@, order_id, [timestamp |-> now, cust_id |-> order.cust_id,
                                          notes |-> order.notes])])
             lines == insert_items(ins.db, order_id, order.items, 1)
         IN  IF ~ins.ok THEN IntegrityError(ins.db)
             ELSE IF ~lines.ok THEN IntegrityError(lines.db)
             ELSE reread_order(lines.db, order_id)

\* create_order that stores the timestamp of the body when the body has one
create_order_body_client_time(db, order, now) ==
    IF order.cust_id \notin DOMAIN db.customers
    THEN HTTPException(db, 404, "Customer not found", <<>>)
    ELSE IF order.items = <<>>
    THEN HTTPException(db, 400, "Order must contain at least one item.", <<>>)
    ELSE IF invalid_item_ids(db, order.items) # <<>>
    THEN HTTPException(db, 404, "Invalid item IDs", invalid_item_ids(db, order.items))
    ELSE LET order_id == lastrowid(db.orders)
             stamp == IF order.timestamp # <<>> THEN order.timestamp[1] ELSE now
             ins == execute(db, [db EXCEPT !.orders =
                        Put(@, order_id, [timestamp |-> stamp, cust_id |-> order.cust_id,
                                          notes |-> order.notes])])
             lines == insert_items(ins.db, order_id, order.items, 1)
         IN  IF ~ins.ok THEN IntegrityError(ins.db)
             ELSE IF ~lines.ok THEN IntegrityError(lines.db)
             ELSE reread_order(lines.db, order_id)

\* create_order without the check for an empty item list
create_order_body_empty_allowed(db, order, now) ==
    IF order.cust_id \notin DOMAIN db.customers
    THEN HTTPException(db, 404, "Customer not found", <<>>)
    ELSE IF invalid_item_ids(db, order.items) # <<>>
    THEN HTTPException(db, 404, "Invalid item IDs", invalid_item_ids(db, order.items))
    ELSE LET order_id == lastrowid(db.orders)
             ins == execute(db, [db EXCEPT !.orders =
                        Put(@, order_id, [timestamp |-> now, cust_id |-> order.cust_id,
                                          notes |-> order.notes])])
             lines == insert_items(ins.db, order_id, order.items, 1)
         IN  IF ~ins.ok THEN IntegrityError(ins.db)
             ELSE IF ~lines.ok THEN IntegrityError(lines.db)
             ELSE reread_order(lines.db, order_id)

create_order_body(db, order, now) ==
    IF order.cust_id \notin DOMAIN db.customers
    THEN HTTPException(db, 404, "Customer not found", <<>>)
    ELSE IF order.items = <<>>
    THEN HTTPException(db, 400, "Order must contain at least one item.", <<>>)
    ELSE IF invalid_item_ids(db, order.items) # <<>>
    THEN HTTPException(db, 404, "Invalid item IDs", invalid_item_ids(db, order.items))
    ELSE LET order_id == lastrowid(db.orders)
             ins == execute(db, [db EXCEPT !.orders =
                        Put(@, order_id, [timestamp |-> now, cust_id |-> order.cust_id,
                                          notes |-> order.notes])])
             lines == insert_items(ins.db, order_id, order.items, 1)
         IN  IF ~ins.ok THEN IntegrityError(ins.db)
             ELSE IF ~lines.ok THEN IntegrityError(lines.db)
             ELSE reread_order(lines.db, order_id)

create_order(order, now) ==
    /\ req.op = "idle"
    /\ lastrowid(orders) <= MaxOrderId
    /\ LET out == create_order_body(DB, order, now)
       IN  Serve([op |-> "create_order", order |-> order, now |-> now], out,
                 Response(out, 500, "Error creating order", "Error creating order"))

\* get_order that shapes whatever the query returned, without the check for
\* a missing row: an absent order gives an empty result
get_order_body_unchecked(db, order_id) ==
    Return(db, [kind |-> "orders",
                rows |-> format_order_rows_to_dict(db, select_order(db, order_id))])

\* get_order that consumes the rows it has read
get_order_body_consuming(db, order_id) ==
    IF select_order(db, order_id) = <<>>
    THEN HTTPException(db, 404, "Order not found", <<>>)
    ELSE Return([db EXCEPT !.item_list = delete_rows(@, order_id)],
                format_order_rows_to_dict(db, select_order(db, order_id))[1])

get_order_body(db, order_id) ==
    IF select_order(db, order_id) = <<>>
    THEN HTTPException(db, 404, "Order not found", <<>>)
    ELSE IF Len(format_order_rows_to_dict(db, select_order(db, order_id))) > 0
    THEN Return(db, format_order_rows_to_dict(db, select_order(db, order_id))[1])
    ELSE HTTPException(db, 404, "Order not found", <<>>)

get_order(order_id) ==
    /\ req.op = "idle"
    /\ LET out == get_order_body(DB, order_id)
       IN  Serve([op |-> "get_order", order_id |-> order_id], out,
                 Response(out, 500, "Internal Server Error", "Internal Server Error"))

\* update_order that looks up the customer before the order
update_order_body_customer_first(db, order_id, order) ==
    IF order.cust_id \notin DOMAIN db.customers
    THEN HTTPException(db, 404, "Customer not found", <<>>)
    ELSE IF order_id \notin DOMAIN db.orders
    THEN HTTPException(db, 404, "Order not found", <<>>)
    ELSE IF order.items = <<>>
    THEN HTTPException(db, 400, "Order must contain at least one item.", <<>>)
    ELSE IF invalid_item_ids(db, order.items) # <<>>
    THEN HTTPException(db, 404, "Invalid item IDs", invalid_item_ids(db, order.items))
    ELSE LET upd == execute(db, [db EXCEPT !.orders[order_id] =
                        [@ EXCEPT !.cust_id = order.cust_id, !.notes = order.notes]])
             del == execute(upd.db, [upd.db EXCEPT !.item_list =
                        delete_rows(@, order_id)])
             lines == insert_items(del.db, order_id, order.items, 1)
         IN  IF ~upd.ok THEN IntegrityError(upd.db)
             ELSE IF ~del.ok THEN IntegrityError(del.db)
             ELSE IF ~lines.ok THEN IntegrityError(lines.db)
             ELSE reread_order(lines.db, order_id)

\* update_order that inserts the new rows without deleting the old ones
update_order_body_no_delete(db, order_id, order) ==
    IF order_id \notin DOMAIN db.orders
    THEN HTTPException(db, 404, "Order not found", <<>>)
    ELSE IF order.cust_id \notin DOMAIN db.customers
    THEN HTTPException(db, 404, "Customer not found", <<>>)
    ELSE IF order.items = <<>>
    THEN HTTPException(db, 400, "Order must contain at least one item.", <<>>)
    ELSE IF invalid_item_ids(db, order.items) # <<>>
    THEN HTTPException(db, 404, "Invalid item IDs", invalid_item_ids(db, order.items))
    ELSE LET upd == execute(db, [db EXCEPT !.orders[order_id] =
                        [@ EXCEPT !.cust_id = order.cust_id, !.notes = order.notes]])
             lines == insert_items(upd.db, order_id, order.items, 1)
         IN  IF ~upd.ok THEN IntegrityError(upd.db)
             ELSE IF ~lines.ok THEN IntegrityError(lines.db)
             ELSE reread_order(lines.db, order_id)

update_order_body(db, order_id, order) ==
    IF order_id \notin DOMAIN db.orders
    THEN HTTPException(db, 404, "Order not found", <<>>)
    ELSE IF order.cust_id \notin DOMAIN db.customers
    THEN HTTPException(db, 404, "Customer not found", <<>>)
    ELSE IF order.items = <<>>
    THEN HTTPException(db, 400, "Order must contain at least one item.", <<>>)
    ELSE IF invalid_item_ids(db, order.items) # <<>>
    THEN HTTPException(db, 404, "Invalid item IDs", invalid_item_ids(db, order.items))
    ELSE LET upd == execute(db, [db EXCEPT !.orders[order_id] =
                        [@ EXCEPT !.cust_id = order.cust_id, !.notes = order.notes]])
             del == execute(upd.db, [upd.db EXCEPT !.item_list =
                        delete_rows(@, order_id)])
             lines == insert_items(del.db, order_id, order.items, 1)
         IN  IF ~upd.ok THEN IntegrityError(upd.db)
             ELSE IF ~del.ok THEN IntegrityError(del.db)
             ELSE IF ~lines.ok THEN IntegrityError(lines.db)
             ELSE reread_order(lines.db, order_id)

update_order(order_id, order) ==
    /\ req.op = "idle"
    /\ LET out == IF order.id # <<>> /\ order.id[1] # order_id
                  THEN HTTPException(DB, 400, "Order ID in path and body must match", <<>>)
                  ELSE update_order_body(DB, order_id, order)
       IN  Serve([op |-> "update_order", order_id |-> order_id, order |-> order], out,
                 Response(out, 500, "Error updating order", "Error updating order"))

\* delete_order that removes the order row only, on a connection that does
\* not enforce the foreign keys
delete_order_body_row_only(db, order_id) ==
    IF order_id \notin DOMAIN db.orders
    THEN HTTPException(db, 404, "Order not found", <<>>)
    ELSE Return([db EXCEPT !.orders = Drop(@, order_id)],
                Message("Order deleted successfully"))

\* DELETE FROM item_list without the WHERE clause
delete_order_body_all_rows(db, order_id) ==
    IF order_id \notin DOMAIN db.orders
    THEN HTTPException(db, 404, "Order not found", <<>>)
    ELSE LET lines == execute(db, [db EXCEPT !.item_list = EmptyTable])
             del == execute(lines.db, [lines.db EXCEPT !.orders = Drop(@, order_id)])
         IN  IF ~lines.ok THEN IntegrityError(lines.db)
             ELSE IF ~del.ok THEN IntegrityError(del.db)
             ELSE Return(del.db, Message("Order deleted successfully"))

delete_order_body(db, order_id) ==
    IF order_id \notin DOMAIN db.orders
    THEN HTTPException(db, 404, "Order not found", <<>>)
    ELSE LET lines == execute(db, [db EXCEPT !.item_list = delete_rows(@, order_id)])
             del == execute(lines.db, [lines.db EXCEPT !.orders = Drop(@, order_id)])
         IN  IF ~lines.ok THEN IntegrityError(lines.db)
             ELSE IF ~del.ok THEN IntegrityError(del.db)
             ELSE Return(del.db, Message("Order deleted successfully"))

delete_order(order_id) ==
    /\ req.op = "idle"
    /\ LET out == delete_order_body(DB, order_id)
       IN  Serve([op |-> "delete_order", order_id |-> order_id], out,
                 Response(out, 500, "Error deleting order", "Error deleting order"))

(***************************************************************************)
(* Requests served at the same time.  FastAPI runs each handler in a       *)
(* thread of its pool, on a connection of its own.  The SELECTs a handler  *)
(* runs before its first INSERT, UPDATE or DELETE read the committed       *)
(* store, one statement at a time; the first writing statement opens the   *)
(* transaction, which holds SQLite's write lock until commit or rollback,  *)
(* so the statements from there to the end of the block take effect as one *)
(* step (another writer waits for the lock).                               *)
(***************************************************************************)
Threads == {1, 2}

IdleThread == [r |-> [op |-> "idle"], pc |-> "idle", status |-> 0]

\* the statement reached is executed: the handler goes on to the next one
Goto(t, pc) ==
    /\ threads' = [threads EXCEPT ![t].pc = pc]
    /\ UNCHANGED <<customers, items, orders, item_list, req, resp, pre>>

\* raise HTTPException before any writing statement
Raise(t, status) ==
    /\ threads' = [threads EXCEPT ![t].pc = "done", ![t].status = status]
    /\ UNCHANGED <<customers, items, orders, item_list, req, resp, pre>>

\* The transaction of the block: the writing statements and what follows
\* them, then commit or rollback; an IntegrityError is answered with the
\* status of the handler's except clause.
Transaction(t, out, status) ==
    /\ LET after == db_connection(DB, out)
       IN  /\ customers' = after.customers
           /\ items' = after.items
           /\ orders' = after.orders
           /\ item_list' = after.item_list
    /\ threads' = [threads EXCEPT ![t].pc = "done",
                                  ![t].status = Response(out, status, "", "").status]
    /\ UNCHANGED <<req, resp, pre>>

\* DELETE FROM customers WHERE id = ?
delete_customer_statements(db, customer_id) ==
    LET del == execute(db, [db EXCEPT !.customers = Drop(@, customer_id)])
    IN  IF ~del.ok THEN IntegrityError(del.db)
        ELSE Return(del.db, Message("Customer deleted successfully"))

\* DELETE FROM items WHERE id = ?
delete_item_statements(db, item_id) ==
    LET del == execute(db, [db EXCEPT !.items = Drop(@, item_id)])
    IN  IF ~del.ok THEN IntegrityError(del.db)
        ELSE Return(del.db, Message("Item deleted successfully"))

\* create_order from INSERT INTO orders to the return
create_order_statements(db, order, now) ==
    LET order_id == lastrowid(db.orders)
        ins == execute(db, [db EXCEPT !.orders =
                   Put(@, order_id, [timestamp |-> now, cust_id |-> order.cust_id,
                                     notes |-> order.notes])])
        lines == insert_items(ins.db, order_id, order.items, 1)
    IN  IF ~ins.ok THEN IntegrityError(ins.db)
        ELSE IF ~lines.ok THEN IntegrityError(lines.db)
        ELSE reread_order(lines.db, order_id)

\* update_order from UPDATE orders to the return; the UPDATE of a row that
\* is no longer there changes nothing
update_order_statements(db, order_id, order) ==
    LET upd == execute(db, IF order_id \in DOMAIN db.orders
                           THEN [db EXCEPT !.orders[order_id] =
                                    [@ EXCEPT !.cust_id = order.cust_id,
                                              !.notes = order.notes]]
                           ELSE db)
        del == execute(upd.db, [upd.db EXCEPT !.item_list = delete_rows(@, order_id)])
        lines == insert_items(del.db, order_id, order.items, 1)
    IN  IF ~upd.ok THEN IntegrityError(upd.db)
        ELSE IF ~del.ok THEN IntegrityError(del.db)
        ELSE IF ~lines.ok THEN IntegrityError(lines.db)
        ELSE reread_order(lines.db, order_id)

\* A request arrives at an idle thread; responses already computed have
\* been sent.  The handler stands before its first statement.
receive(t, r, pc) ==
    /\ threads[t].pc = "idle"
    /\ \A u \in Threads : threads[u].pc # "done"
    /\ r.op = "create_customer" => lastrowid(customers) <= MaxCustId
    /\ r.op = "create_item" => lastrowid(items) <= MaxItemId
    /\ r.op = "create_order" => lastrowid(orders) <= MaxOrderId
    /\ threads' = [threads EXCEPT ![t] = [r |-> r, pc |-> pc, status |-> 0]]
    /\ UNCHANGED <<customers, items, orders, item_list, req, resp, pre>>

\* the response is sent
respond(t) ==
    /\ threads[t].pc = "done"
    /\ threads' = [threads EXCEPT ![t] = IdleThread]
    /\ UNCHANGED <<customers, items, orders, item_list, req, resp, pre>>

create_customer_thread(t) ==
    /\ threads[t].r.op = "create_customer"
    /\ threads[t].pc = "insert"
    /\ Transaction(t, create_customer_body(DB, threads[t].r.customer), 400)

create_item_thread(t) ==
    /\ threads[t].r.op = "create_item"
    /\ threads[t].pc = "insert"
    /\ Transaction(t, create_item_body(DB, threads[t].r.item), 400)

delete_customer_thread(t) ==
    LET customer_id == threads[t].r.customer_id
    IN  /\ threads[t].r.op = "delete_customer"
        /\ \/ /\ threads[t].pc = "select_customer"
              /\ IF customer_id \notin DOMAIN customers
                 THEN Raise(t, 404)
                 ELSE Goto(t, "select_orders")
           \/ /\ threads[t].pc = "select_orders"
              /\ IF \E o \in DOMAIN orders : orders[o].cust_id = customer_id
                 THEN Raise(t, 400)
                 ELSE Goto(t, "delete")
           \/ /\ threads[t].pc = "delete"
              /\ Transaction(t, delete_customer_statements(DB, customer_id), 500)

delete_item_thread(t) ==
    LET item_id == threads[t].r.item_id
    IN  /\ threads[t].r.op = "delete_item"
        /\ \/ /\ threads[t].pc = "select_item"
              /\ IF item_id \notin DOMAIN items
                 THEN Raise(t, 404)
                 ELSE Goto(t, "select_item_list")
           \/ /\ threads[t].pc = "select_item_list"
              /\ IF item_in_use(item_list, item_id)
                 THEN Raise(t, 400)
                 ELSE Goto(t, "delete")
           \/ /\ threads[t].pc = "delete"
              /\ Transaction(t, delete_item_statements(DB, item_id), 500)

create_order_thread(t) ==
    LET order == threads[t].r.order
    IN  /\ threads[t].r.op = "create_order"
        /\ \/ /\ threads[t].pc = "select_customer"
              /\ IF order.cust_id \notin DOMAIN customers
                 THEN Raise(t, 404)
                 ELSE IF order.items = <<>>
                 THEN Raise(t, 400)
                 ELSE Goto(t, "select_items")
           \/ /\ threads[t].pc = "select_items"
              /\ IF invalid_item_ids(DB, order.items) # <<>>
                 THEN Raise(t, 404)
                 ELSE Goto(t, "insert")
           \/ /\ threads[t].pc = "insert"
              /\ Transaction(t, create_order_statements(DB, order, threads[t].r.now), 500)

update_order_thread(t) ==
    LET order == threads[t].r.order
        order_id == threads[t].r.order_id
    IN  /\ threads[t].r.op = "update_order"
        /\ \/ /\ threads[t].pc = "select_order"
              /\ IF order.id # <<>> /\ order.id[1] # order_id
                 THEN Raise(t, 400)
                 ELSE IF order_id \notin DOMAIN orders
                 THEN Raise(t, 404)
                 ELSE Goto(t, "select_customer")
           \/ /\ threads[t].pc = "select_customer"
              /\ IF order.cust_id \notin DOMAIN customers
                 THEN Raise(t, 404)
                 ELSE IF order.items = <<>>
                 THEN Raise(t, 400)
                 ELSE Goto(t, "select_items")
           \/ /\ threads[t].pc = "select_items"
              /\ IF invalid_item_ids(DB, order.items) # <<>>
                 THEN Raise(t, 404)
                 ELSE Goto(t, "update")
           \/ /\ threads[t].pc = "update"
              /\ Transaction(t, update_order_statements(DB, order_id, order), 500)

\* The bodies the concurrent requests carry.
ThreadCustomer == [id : {<<>>}, name : Names, phone : {"111-111-1111"}]
ThreadOrder == [id : {<<>>}, cust_id : {1}, notes : {"NULL"},
                items : [1..1 -> ItemIds]]

NextThreads ==
    \/ \E t \in Threads, customer \in ThreadCustomer :
           receive(t, [op |-> "create_customer", customer |-> customer], "insert")
    \/ \E t \in Threads, item \in NoId(Item) :
           receive(t, [op |-> "create_item", item |-> item], "insert")
    \/ \E t \in Threads :
           receive(t, [op |-> "delete_customer", customer_id |-> 1], "select_customer")
    \/ \E t \in Threads, item_id \in ItemIds :
           receive(t, [op |-> "delete_item", item_id |-> item_id], "select_item")
    \/ \E t \in Threads, order \in ThreadOrder, now \in Times :
           receive(t, [op |-> "create_order", order |-> order, now |-> now],
                   "select_customer")
    \/ \E t \in Threads, order_id \in OrderIds, order \in ThreadOrder :
           receive(t, [op |-> "update_order", order_id |-> order_id, order |-> order],
                   "select_order")
    \/ \E t \in Threads : create_customer_thread(t)
    \/ \E t \in Threads : create_item_thread(t)
    \/ \E t \in Threads : delete_customer_thread(t)
    \/ \E t \in Threads : delete_item_thread(t)
    \/ \E t \in Threads : create_order_thread(t)
    \/ \E t \in Threads : update_order_thread(t)
    \/ \E t \in Threads : respond(t)

(***************************************************************************)
(* The service: an empty store, then any sequence of non-overlapping        *)
(* requests.                                                               *)
(***************************************************************************)
Idle == [op |-> "idle"]

NoResponse == [status |-> 0, detail |-> "", ids |-> <<>>, body |-> NoBody]

\* The response has been sent and the connection closed: the service waits
\* for the next request.
finish ==
    /\ req.op # "idle"
    /\ req' = Idle
    /\ resp' = NoResponse
    /\ pre' = DB
    /\ UNCHANGED <<customers, items, orders, item_list, threads>>

Init ==
    /\ customers = EmptyTable
    /\ items = EmptyTable
    /\ orders = EmptyTable
    /\ item_list = EmptyTable
    /\ req = Idle
    /\ resp = NoResponse
    /\ pre = [customers |-> EmptyTable, items |-> EmptyTable, orders |-> EmptyTable,
              item_list |-> EmptyTable]
    /\ threads = [t \in Threads |-> IdleThread]

Next ==
    \/ \E customer \in NoId(Customer) : create_customer(customer)
    \/ \E customer_id \in CustIds : get_customer(customer_id)
    \/ \E customer_id \in CustIds, customer \in Customer :
           update_customer(customer_id, customer)
    \/ \E customer_id \in CustIds : delete_customer(customer_id)
    \/ \E item \in NoId(Item) : create_item(item)
    \/ \E item_id \in ItemIds : get_item(item_id)
    \/ \E item_id \in ItemIds, item \in Item : update_item(item_id, item)
    \/ \E item_id \in ItemIds : delete_item(item_id)
    \/ \E order \in NoId(Order), now \in Times : create_order(order, now)
    \/ \E order_id \in OrderIds : get_order(order_id)
    \/ \E order_id \in OrderIds, order \in Order : update_order(order_id, order)
    \/ \E order_id \in OrderIds : delete_order(order_id)
    \/ finish

Spec == Init /\ [][Next]_vars

SpecThreads == Init /\ [][NextThreads]_vars

(***************************************************************************)
(* The catalogue under wider values: several names, and item bodies as the *)
(* client sends them, negative and null prices included, validated by the  *)
(* Item model before the handler runs.  Orders carry one item and no note. *)
(***************************************************************************)
WideNames == {"Ann", "Bob"}
RawPrices == {[kind |-> "int", value |-> -1], [kind |-> "int", value |-> 3],
              [kind |-> "null", value |-> 0]}

WideCustomer == [id : OptIds({1}), name : WideNames, phone : Phones]
RawItem == [id : OptIds({1}), name : ItemNames, price : RawPrices]
OneItemOrder == [id : {<<>>}, cust_id : CustIds, notes : {"NULL"},
                 items : [1..1 -> ItemIds]]

\* RequestValidationError with the handler called all the same
RequestValidationError_handled(r) ==
    IF r.op = "create_customer"
    THEN Serve(r, create_customer_body(DB, r.customer),
               [status |-> 422, detail |-> "value_error", ids |-> <<>>, body |-> NoBody])
    ELSE Serve(r, Return(DB, NoBody),
               [status |-> 422, detail |-> "value_error", ids |-> <<>>, body |-> NoBody])

\* FastAPI builds the Item from the body and answers 422 when a validator
\* raises, the handler not called.
RequestValidationError(r) ==
    Serve(r, Return(DB, NoBody),
          [status |-> 422, detail |-> "value_error", ids |-> <<>>, body |-> NoBody])

post_item(raw) ==
    LET price == validate_price(raw.price)
    IN  IF price.ok
        THEN create_item([raw EXCEPT !.price = price.value])
        ELSE /\ req.op = "idle"
             /\ RequestValidationError([op |-> "create_item", item |-> raw])

put_item(item_id, raw) ==
    LET price == validate_price(raw.price)
    IN  IF price.ok
        THEN update_item(item_id, [raw EXCEPT !.price = price.value])
        ELSE /\ req.op = "idle"
             /\ RequestValidationError([op |-> "update_item", item_id |-> item_id,
                                        item |-> raw])

NextCatalog ==
    \/ \E customer \in NoId(WideCustomer) : create_customer(customer)
    \/ \E customer_id \in CustIds : get_customer(customer_id)
    \/ \E customer_id \in CustIds, customer \in WideCustomer :
           update_customer(customer_id, customer)
    \/ \E customer_id \in CustIds : delete_customer(customer_id)
    \/ \E raw \in NoId(RawItem) : post_item(raw)
    \/ \E item_id \in ItemIds : get_item(item_id)
    \/ \E item_id \in ItemIds, raw \in RawItem : put_item(item_id, raw)
    \/ \E item_id \in ItemIds : delete_item(item_id)
    \/ \E order \in OneItemOrder, now \in Times : create_order(order, now)
    \/ \E order_id \in OrderIds : get_order(order_id)
    \/ \E order_id \in OrderIds, order \in OneItemOrder : update_order(order_id, order)
    \/ \E order_id \in OrderIds : delete_order(order_id)
    \/ finish

SpecCatalog == Init /\ [][NextCatalog]_vars

(***************************************************************************)
(* Properties                                                              *)
(***************************************************************************)
(***************************************************************************)
(* The customer and item endpoints given bodies as clients write them:     *)
(* phones and prices well-formed and malformed, validated by the Customer  *)
(* and Item models before the handler runs.                                *)
(***************************************************************************)
Ones == <<"1", "1", "1">>
Twos == <<"2", "2", "2">>
RawPhones == {Ones \o <<"-">> \o Ones \o <<"-">> \o Ones \o <<"1">>,
              Twos \o <<"-">> \o Twos \o <<"-">> \o Twos \o <<"2">>,
              Ones \o Ones \o Ones \o <<"1">>,
              Ones \o <<"-">> \o Ones \o <<"-">> \o Ones \o <<"a">>}
TextPrices == {[kind |-> "int", value |-> 3, text |-> <<>>],
               [kind |-> "str", value |-> 0, text |-> <<"1", "0", ",", "5", "0">>],
               [kind |-> "str", value |-> 0, text |-> <<"3">>],
               [kind |-> "str", value |-> 0, text |-> <<"3", ".", "0">>]}

RawCustomer == [id : OptIds({1}), name : WideNames, phone : RawPhones]
TextItem == [id : OptIds({1}), name : ItemNames, price : TextPrices]

post_customer(raw) ==
    IF validate_phone(raw.phone).ok
    THEN create_customer(raw)
    ELSE /\ req.op = "idle"
         /\ RequestValidationError([op |-> "create_customer", customer |-> raw])

put_customer(customer_id, raw) ==
    IF validate_phone(raw.phone).ok
    THEN update_customer(customer_id, raw)
    ELSE /\ req.op = "idle"
         /\ RequestValidationError([op |-> "update_customer",
                                    customer_id |-> customer_id, customer |-> raw])

NextValidation ==
    \/ \E raw \in NoId(RawCustomer) : post_customer(raw)
    \/ \E customer_id \in CustIds : get_customer(customer_id)
    \/ \E customer_id \in CustIds, raw \in RawCustomer : put_customer(customer_id, raw)
    \/ \E customer_id \in CustIds : delete_customer(customer_id)
    \/ \E raw \in NoId(TextItem) : post_item(raw)
    \/ \E item_id \in ItemIds : get_item(item_id)
    \/ \E item_id \in ItemIds, raw \in TextItem : put_item(item_id, raw)
    \/ \E item_id \in ItemIds : delete_item(item_id)
    \/ finish

SpecValidation == Init /\ [][NextValidation]_vars

(***************************************************************************)
(* One customer, one item and their orders over a running clock: order     *)
(* bodies carry the timestamp field of the Order model, rows are created   *)
(* and deleted again.  A request that has started is answered.             *)
(***************************************************************************)
LedgerTimes == {1, 2}
LedgerCustomer == [id : {<<>>}, name : Names, phone : {"111-111-1111"}]
LedgerItem == [id : {<<>>}, name : {"Tea"}, price : Prices]
TimedOrder == [id : OptIds({1}), cust_id : {1}, notes : Notes,
               timestamp : OptIds(LedgerTimes), items : [1..1 -> {1}]]

NextLedger ==
    \/ \E customer \in LedgerCustomer : create_customer(customer)
    \/ \E customer_id \in CustIds : delete_customer(customer_id)
    \/ \E item \in LedgerItem : create_item(item)
    \/ \E item_id \in ItemIds : delete_item(item_id)
    \/ \E order \in NoId(TimedOrder), now \in LedgerTimes : create_order(order, now)
    \/ \E order_id \in OrderIds : get_order(order_id)
    \/ \E order_id \in OrderIds, order \in TimedOrder : update_order(order_id, order)
    \/ \E order_id \in OrderIds : delete_order(order_id)
    \/ finish

SpecLedger == Init /\ [][NextLedger]_vars /\ WF_vars(finish)

IsOrderWrite == req.op \in {"create_order", "update_order"}

Succeeded == resp.status = 200

Elems(seq) == {seq[a] : a \in 1..Len(seq)}

StoreUnchanged == DB = pre

\* C1: every order row's cust_id is the id of an existing customer row;
\* create_order and update_order write only a cust_id the customer lookup
\* found, and delete_customer never removes a customer an order references.
C1_OrdersReferenceCustomers ==
    /\ \A o \in DOMAIN orders : orders[o].cust_id \in DOMAIN customers
    /\ IsOrderWrite /\ Succeeded => req.order.cust_id \in DOMAIN pre.customers
    /\ req.op = "delete_customer" /\ Succeeded =>
           \A o \in DOMAIN pre.orders : pre.orders[o].cust_id # req.customer_id

C1_Witness ==
    /\ req.op = "delete_customer"
    /\ resp.status = 400
    /\ \E o \in DOMAIN orders : orders[o].cust_id = req.customer_id

\* C2: every item_list row references an existing order row and an existing
\* item row; delete_item never removes a referenced item, delete_order removes
\* the order's rows together with the order row, and create_order and
\* update_order insert rows only for item ids that exist.
C2_ItemListReferencesExist ==
    /\ \A o \in DOMAIN item_list :
           /\ o \in DOMAIN orders
           /\ \A a \in 1..Len(item_list[o]) : item_list[o][a] \in DOMAIN items
    /\ req.op = "delete_item" /\ Succeeded =>
           \A o \in DOMAIN pre.item_list : req.item_id \notin Elems(pre.item_list[o])
    /\ req.op = "delete_order" /\ Succeeded =>
           req.order_id \notin DOMAIN orders /\ req.order_id \notin DOMAIN item_list
    /\ IsOrderWrite /\ Succeeded => Elems(req.order.items) \subseteq DOMAIN pre.items

C2_Witness ==
    /\ req.op = "delete_order"
    /\ Succeeded
    /\ req.order_id \in DOMAIN pre.item_list
    /\ DOMAIN item_list # {}

\* C3: every existing order row has at least one item_list row; create_order
\* and update_order reject every request with an empty item list and write
\* nothing, and a request whose only defect is the empty list gets BadRequest
\* ("Order must contain at least one item.").
C3_OrdersHaveItems ==
    /\ \A o \in DOMAIN orders : Len(rows_of(item_list, o)) >= 1
    /\ IsOrderWrite /\ req.order.items = <<>> =>
           /\ ~Succeeded
           /\ StoreUnchanged
           /\ /\ req.order.cust_id \in DOMAIN pre.customers
              /\ req.op = "update_order" => req.order_id \in DOMAIN pre.orders
              /\ req.op = "update_order" /\ req.order.id # <<>> => req.order.id[1] = req.order_id
              => resp.status = 400 /\ resp.detail = "Order must contain at least one item."

C3_Witness ==
    /\ IsOrderWrite
    /\ req.order.items = <<>>
    /\ resp.status = 400
    /\ resp.detail = "Order must contain at least one item."
    /\ DOMAIN orders # {}

\* C4: create_order is all-or-nothing: when some requested item id does not
\* exist, valid ids beside it or not, the request fails with NotFound and the
\* orders and item_list tables are as before.
C4_CreateOrderAllOrNothing ==
    req.op = "create_order" /\ ~(Elems(req.order.items) \subseteq DOMAIN pre.items) =>
        /\ resp.status = 404
        /\ orders = pre.orders
        /\ item_list = pre.item_list
        /\ req.order.cust_id \in DOMAIN pre.customers => resp.detail = "Invalid item IDs"

C4_Witness ==
    /\ req.op = "create_order"
    /\ resp.status = 404
    /\ resp.detail = "Invalid item IDs"
    /\ Elems(req.order.items) \cap DOMAIN pre.items # {}
    /\ DOMAIN orders # {}

\* C5: a successful update_order of order X with item list L leaves exactly
\* the rows of L for X, sets X's cust_id and notes from the request and leaves
\* the rows of every other order unchanged.
C5_UpdateOrderReplaces ==
    req.op = "update_order" /\ Succeeded =>
        /\ rows_of(item_list, req.order_id) = req.order.items
        /\ Cardinality(Elems(req.order.items)) = Len(req.order.items)
        /\ orders[req.order_id].cust_id = req.order.cust_id
        /\ orders[req.order_id].notes = req.order.notes
        /\ \A o \in (DOMAIN pre.orders \cup DOMAIN pre.item_list) \ {req.order_id} :
               /\ rows_of(item_list, o) = rows_of(pre.item_list, o)
               /\ o \in DOMAIN orders /\ orders[o] = pre.orders[o]

C5_Witness ==
    /\ req.op = "update_order"
    /\ Succeeded
    /\ Elems(rows_of(pre.item_list, req.order_id)) \ Elems(req.order.items) # {}
    /\ pre.orders[req.order_id].cust_id # req.order.cust_id
    /\ pre.orders[req.order_id].notes # req.order.notes
    /\ DOMAIN orders # {req.order_id}

\* C6: delete_customer(id) fails with NotFound when the customer is absent,
\* fails with BadRequest and changes nothing when an order has cust_id = id,
\* and otherwise succeeds, removes that customer row alone, after which
\* get_customer(id) gives NotFound.
C6_DeleteCustomer ==
    req.op = "delete_customer" =>
        LET id == req.customer_id
            owns == \E o \in DOMAIN pre.orders : pre.orders[o].cust_id = id
        IN  /\ id \notin DOMAIN pre.customers =>
                   resp.status = 404 /\ resp.detail = "Customer not found" /\ StoreUnchanged
            /\ id \in DOMAIN pre.customers /\ owns =>
                   /\ resp.status = 400
                   /\ resp.detail = "Cannot delete customer with existing orders"
                   /\ StoreUnchanged
            /\ id \in DOMAIN pre.customers /\ ~owns =>
                   /\ Succeeded
                   /\ DOMAIN customers = DOMAIN pre.customers \ {id}
                   /\ \A c \in DOMAIN customers : customers[c] = pre.customers[c]
                   /\ items = pre.items /\ orders = pre.orders /\ item_list = pre.item_list
                   /\ get_customer_body(DB, id).status = 404

C6_Witness ==
    /\ req.op = "delete_customer"
    /\ Succeeded
    /\ DOMAIN customers # {}
    /\ DOMAIN orders # {}

\* C7: delete_item(id) fails with NotFound when the item is absent, fails
\* with BadRequest and changes nothing while an item_list row references the
\* item, and succeeds otherwise; once delete_order or update_order has removed
\* the last row that referenced an item, delete_item on that item succeeds.
C7_DeleteItem ==
    /\ req.op = "delete_item" =>
           LET id == req.item_id
               used == \E o \in DOMAIN pre.item_list : id \in Elems(pre.item_list[o])
           IN  /\ id \notin DOMAIN pre.items =>
                      resp.status = 404 /\ resp.detail = "Item not found" /\ StoreUnchanged
               /\ id \in DOMAIN pre.items /\ used =>
                      /\ resp.status = 400
                      /\ resp.detail = "Cannot delete item that is used in existing orders"
                      /\ StoreUnchanged
               /\ id \in DOMAIN pre.items /\ ~used =>
                      Succeeded /\ DOMAIN items = DOMAIN pre.items \ {id}
    /\ req.op \in {"delete_order", "update_order"} /\ Succeeded =>
           \A id \in DOMAIN items :
               /\ \E o \in DOMAIN pre.item_list : id \in Elems(pre.item_list[o])
               /\ \A o \in DOMAIN item_list : id \notin Elems(item_list[o])
               => /\ delete_item_body(DB, id).exc = "none"
                  /\ id \notin DOMAIN delete_item_body(DB, id).db.items

C7_Witness ==
    /\ req.op = "delete_item"
    /\ resp.status = 400
    /\ \E o \in DOMAIN orders :
           /\ delete_order_body(DB, o).exc = "none"
           /\ delete_item_body(delete_order_body(DB, o).db, req.item_id).exc = "none"

\* C8: every request that ends in an error response leaves the four tables as
\* they were before the request, also when statements of the mutation had
\* already executed when it failed.
C8_ErrorsRollBack ==
    req.op # "idle" /\ ~Succeeded => StoreUnchanged

C8_Witness ==
    /\ req.op = "update_order"
    /\ ~Succeeded
    /\ Len(req.order.items) > Cardinality(Elems(req.order.items))
    /\ update_order_body(pre, req.order_id, req.order).exc = "IntegrityError"
    /\ update_order_body(pre, req.order_id, req.order).db # pre
    /\ StoreUnchanged

\* C9: create_order applies its checks in a fixed order, all before any
\* write: a missing customer gives NotFound ("Customer not found") whatever
\* the item list; with the customer present an empty list gives BadRequest;
\* the invalid-item-ids NotFound comes only with the customer present and the
\* list non-empty.
C9_CreateOrderCheckOrder ==
    req.op = "create_order" =>
        LET out == create_order_body(pre, req.order, req.now)
        IN  /\ req.order.cust_id \notin DOMAIN pre.customers =>
                   resp.status = 404 /\ resp.detail = "Customer not found"
            /\ req.order.cust_id \in DOMAIN pre.customers /\ req.order.items = <<>> =>
                   /\ resp.status = 400
                   /\ resp.detail = "Order must contain at least one item."
            /\ resp.detail = "Invalid item IDs" =>
                   /\ resp.status = 404
                   /\ req.order.cust_id \in DOMAIN pre.customers
                   /\ req.order.items # <<>>
            /\ out.exc = "HTTPException" => out.db = pre

C9_Witness ==
    /\ req.op = "create_order"
    /\ req.order.cust_id \notin DOMAIN pre.customers
    /\ req.order.items = <<>>
    /\ resp.detail = "Customer not found"
    /\ DOMAIN pre.customers # {}

\* C10 as claimed: update_order checks for the order first and for a body id
\* that differs from the path id second, so an update addressed to a missing
\* order whose body carries another id gives NotFound ("Order not found").
C10_UpdateOrderCheckOrder_Claimed ==
    req.op = "update_order" =>
        LET mismatch == req.order.id # <<>> /\ req.order.id[1] # req.order_id
            no_order == req.order_id \notin DOMAIN pre.orders
            no_customer == req.order.cust_id \notin DOMAIN pre.customers
            no_items == req.order.items = <<>>
            bad_items == ~(Elems(req.order.items) \subseteq DOMAIN pre.items)
        IN  /\ no_order =>
                   resp.status = 404 /\ resp.detail = "Order not found"
            /\ ~no_order /\ mismatch =>
                   /\ resp.status = 400
                   /\ resp.detail = "Order ID in path and body must match"
            /\ ~no_order /\ ~mismatch /\ no_customer =>
                   resp.status = 404 /\ resp.detail = "Customer not found"
            /\ ~no_order /\ ~mismatch /\ ~no_customer /\ no_items =>
                   /\ resp.status = 400
                   /\ resp.detail = "Order must contain at least one item."
            /\ ~no_order /\ ~mismatch /\ ~no_customer /\ ~no_items /\ bad_items =>
                   resp.status = 404 /\ resp.detail = "Invalid item IDs"

\* C10: update_order applies its checks in this order, the first failing one
\* deciding the response: body id supplied and different from the path id
\* gives BadRequest; missing order gives NotFound; missing customer gives
\* NotFound; empty item list gives BadRequest; an invalid item id gives
\* NotFound.
C10_UpdateOrderCheckOrder ==
    req.op = "update_order" =>
        LET mismatch == req.order.id # <<>> /\ req.order.id[1] # req.order_id
            no_order == req.order_id \notin DOMAIN pre.orders
            no_customer == req.order.cust_id \notin DOMAIN pre.customers
            no_items == req.order.items = <<>>
            bad_items == ~(Elems(req.order.items) \subseteq DOMAIN pre.items)
        IN  /\ mismatch =>
                   /\ resp.status = 400
                   /\ resp.detail = "Order ID in path and body must match"
            /\ ~mismatch /\ no_order =>
                   resp.status = 404 /\ resp.detail = "Order not found"
            /\ ~mismatch /\ ~no_order /\ no_customer =>
                   resp.status = 404 /\ resp.detail = "Customer not found"
            /\ ~mismatch /\ ~no_order /\ ~no_customer /\ no_items =>
                   /\ resp.status = 400
                   /\ resp.detail = "Order must contain at least one item."
            /\ ~mismatch /\ ~no_order /\ ~no_customer /\ ~no_items /\ bad_items =>
                   resp.status = 404 /\ resp.detail = "Invalid item IDs"

C10_Witness ==
    /\ req.op = "update_order"
    /\ req.order.id # <<>> /\ req.order.id[1] # req.order_id
    /\ req.order_id \notin DOMAIN pre.orders
    /\ resp.status = 400
    /\ DOMAIN pre.orders # {}

\* C11: when create_order or update_order rejects a request for invalid item
\* ids, the error lists every requested id that is not the id of an existing
\* item and no id that is: the requested ids minus the existing ones, not the
\* first invalid one alone.
C11_InvalidIdsAllListed ==
    IsOrderWrite /\ resp.detail = "Invalid item IDs" =>
        /\ Elems(resp.ids) = Elems(req.order.items) \ DOMAIN pre.items
        /\ resp.ids = SelectSeq(req.order.items, LAMBDA i : i \notin DOMAIN pre.items)
        /\ resp.ids # <<>>

C11_Witness ==
    /\ IsOrderWrite
    /\ resp.detail = "Invalid item IDs"
    /\ Cardinality(Elems(resp.ids)) >= 2

\* C12: phone numbers are unique across customers; create_customer with a
\* phone an existing customer holds fails with 400 ("Customer with this phone
\* number already exists"), adds no row and leaves the existing customers as
\* they were.
C12_PhonesUnique ==
    /\ \A a, b \in DOMAIN customers : customers[a].phone = customers[b].phone => a = b
    /\ /\ req.op = "create_customer"
       /\ \E c \in DOMAIN pre.customers : pre.customers[c].phone = req.customer.phone
       => /\ resp.status = 400
          /\ resp.detail = "Error creating customer: Customer with this phone number already exists"
          /\ customers = pre.customers
          /\ StoreUnchanged

C12_Witness ==
    /\ req.op = "create_customer"
    /\ resp.status = 400
    /\ \E c \in DOMAIN customers : customers[c].phone = req.customer.phone

\* C13: update_customer answers by the first of these that applies: a body id
\* different from the path id, 400; an absent customer, 404; a phone another
\* customer holds, 400 with every customer as before; otherwise, the phone
\* being the customer's own included, the row's name and phone are the
\* request's, its id and the other rows are as before and the updated record
\* is returned.
C13_UpdateCustomer ==
    req.op = "update_customer" =>
        LET id == req.customer_id
            c == req.customer
        IN  IF c.id # <<>> /\ c.id[1] # id
            THEN /\ resp.status = 400
                 /\ resp.detail = "Customer ID in path and body must match"
                 /\ StoreUnchanged
            ELSE IF id \notin DOMAIN pre.customers
            THEN /\ resp.status = 404
                 /\ resp.detail = "Customer not found"
                 /\ StoreUnchanged
            ELSE IF \E other \in DOMAIN pre.customers \ {id} :
                        pre.customers[other].phone = c.phone
            THEN /\ resp.status = 400
                 /\ resp.detail = "Error updating customer: Phone number must be unique"
                 /\ StoreUnchanged
            ELSE /\ resp.status = 200
                 /\ DOMAIN customers = DOMAIN pre.customers
                 /\ customers[id] = [name |-> c.name, phone |-> c.phone]
                 /\ \A other \in DOMAIN customers \ {id} :
                        customers[other] = pre.customers[other]
                 /\ resp.body = [kind |-> "customer", id |-> id, name |-> c.name,
                                 phone |-> c.phone]
                 /\ <<items, orders, item_list>> =
                        <<pre.items, pre.orders, pre.item_list>>

C13_Witness ==
    /\ req.op = "update_customer"
    /\ resp.status = 200
    /\ req.customer_id \in DOMAIN pre.customers
    /\ pre.customers[req.customer_id].phone = req.customer.phone
    /\ pre.customers[req.customer_id].name # req.customer.name
    /\ customers[req.customer_id].name = req.customer.name

\* C14: item names are unique across items; create_item with a name an item
\* holds and update_item renaming an item to the name of another item fail
\* with 400 ("Item name must be unique") and leave every item row as it was;
\* update_item that keeps the item's own name succeeds.
C14_ItemNamesUnique ==
    /\ \A a, b \in DOMAIN items : items[a].name = items[b].name => a = b
    /\ /\ req.op = "create_item"
       /\ \E i \in DOMAIN pre.items : pre.items[i].name = req.item.name
       => /\ resp.status = 400
          /\ resp.detail = "Error creating item: Item name must be unique"
          /\ StoreUnchanged
    /\ /\ req.op = "update_item"
       /\ ~(req.item.id # <<>> /\ req.item.id[1] # req.item_id)
       /\ req.item_id \in DOMAIN pre.items
       => IF \E i \in DOMAIN pre.items \ {req.item_id} :
                 pre.items[i].name = req.item.name
          THEN /\ resp.status = 400
               /\ resp.detail = "Error updating item: Item name must be unique"
               /\ StoreUnchanged
          ELSE /\ resp.status = 200
               /\ items[req.item_id].name = req.item.name

C14_Witness ==
    /\ req.op = "update_item"
    /\ resp.status = 400
    /\ req.item_id \in DOMAIN items
    /\ \E i \in DOMAIN items \ {req.item_id} : items[i].name = req.item.name

\* C15: item prices are never negative: create_item and update_item with a
\* negative numeric price are rejected and store nothing, and every item row
\* has a price >= 0.
C15_PricesNonNegative ==
    /\ \A i \in DOMAIN items : items[i].price.value >= 0
    /\ /\ req.op \in {"create_item", "update_item"}
       /\ req.item.price.kind \in {"int", "float"}
       /\ req.item.price.value < 0
       => /\ resp.status # 200
          /\ StoreUnchanged

\* C16: in every committed state item_list holds at most one row for a pair
\* (order_id, item_id), whatever lists, lists that repeat an id included,
\* create_order and update_order are given.
C16_OneRowPerPair ==
    \A o \in DOMAIN item_list :
        \A a, b \in 1..Len(item_list[o]) :
            item_list[o][a] = item_list[o][b] => a = b

C16_Witness ==
    /\ IsOrderWrite
    /\ Len(req.order.items) > Cardinality(Elems(req.order.items))
    /\ Elems(req.order.items) \subseteq DOMAIN pre.items
    /\ req.order.cust_id \in DOMAIN pre.customers
    /\ resp.status \notin {400, 404}
    /\ DOMAIN item_list # {}

\* The last request made a statement violate a constraint of the schema: a
\* phone or an item name another row holds, or an order's item list, checked
\* and found valid, that names an item twice.
ViolatesConstraint ==
    \/ /\ req.op = "create_customer"
       /\ \E c \in DOMAIN pre.customers : pre.customers[c].phone = req.customer.phone
    \/ /\ req.op = "update_customer"
       /\ ~(req.customer.id # <<>> /\ req.customer.id[1] # req.customer_id)
       /\ req.customer_id \in DOMAIN pre.customers
       /\ \E c \in DOMAIN pre.customers \ {req.customer_id} :
              pre.customers[c].phone = req.customer.phone
    \/ /\ req.op = "create_item"
       /\ \E i \in DOMAIN pre.items : pre.items[i].name = req.item.name
    \/ /\ req.op = "update_item"
       /\ ~(req.item.id # <<>> /\ req.item.id[1] # req.item_id)
       /\ req.item_id \in DOMAIN pre.items
       /\ \E i \in DOMAIN pre.items \ {req.item_id} :
              pre.items[i].name = req.item.name
    \/ /\ IsOrderWrite
       /\ req.op = "update_order" =>
              /\ ~(req.order.id # <<>> /\ req.order.id[1] # req.order_id)
              /\ req.order_id \in DOMAIN pre.orders
       /\ req.order.cust_id \in DOMAIN pre.customers
       /\ Elems(req.order.items) \subseteq DOMAIN pre.items
       /\ Len(req.order.items) > Cardinality(Elems(req.order.items))

\* C17: every violation of a constraint of the store raised while a request
\* is processed is answered 400 and never 500, create_order and update_order
\* with a repeated item id included.
C17_ConstraintViolationsAre400 ==
    ViolatesConstraint => resp.status = 400

\* C18: get_order answers 404 ("Order not found") whenever no order row has
\* the id, with no result, empty or partial, in the response; when the order
\* exists it returns the id, the timestamp, the name and phone of the order's
\* customer, the notes and one {name, price} entry per row of the order.
C18_GetOrder ==
    req.op = "get_order" =>
        LET id == req.order_id
        IN  IF id \notin DOMAIN pre.orders
            THEN /\ resp.status = 404
                 /\ resp.detail = "Order not found"
                 /\ resp.body = NoBody
            ELSE /\ resp.status = 200
                 /\ resp.body.kind = "order"
                 /\ resp.body.id = id
                 /\ resp.body.timestamp = pre.orders[id].timestamp
                 /\ resp.body.name = pre.customers[pre.orders[id].cust_id].name
                 /\ resp.body.phone = pre.customers[pre.orders[id].cust_id].phone
                 /\ resp.body.notes = pre.orders[id].notes
                 /\ Len(resp.body.items) = Len(rows_of(pre.item_list, id))
                 /\ Elems(resp.body.items) =
                        {[name |-> pre.items[i].name, price |-> pre.items[i].price] :
                             i \in Elems(rows_of(pre.item_list, id))}

C18_Witness ==
    /\ req.op = "get_order"
    /\ resp.status = 404
    /\ req.order_id \notin DOMAIN orders
    /\ DOMAIN orders # {}

\* C19: delete_order answers 404 when the order is absent; otherwise it
\* removes the order's item_list rows and the order row: no row of the order
\* remains, get_order on the id answers 404, and the other orders with their
\* rows, the customers and the items are as before.
C19_DeleteOrder ==
    req.op = "delete_order" =>
        LET id == req.order_id
        IN  IF id \notin DOMAIN pre.orders
            THEN /\ resp.status = 404
                 /\ resp.detail = "Order not found"
                 /\ StoreUnchanged
            ELSE /\ resp.status = 200
                 /\ DOMAIN orders = DOMAIN pre.orders \ {id}
                 /\ \A o \in DOMAIN orders : orders[o] = pre.orders[o]
                 /\ rows_of(item_list, id) = <<>>
                 /\ \A o \in OrderIds \ {id} :
                        rows_of(item_list, o) = rows_of(pre.item_list, o)
                 /\ customers = pre.customers
                 /\ items = pre.items
                 /\ get_order_body(DB, id).status = 404

C19_Witness ==
    /\ req.op = "delete_order"
    /\ resp.status = 200
    /\ Len(rows_of(pre.item_list, req.order_id)) = 2
    /\ \E o \in DOMAIN orders : rows_of(item_list, o) # <<>>

\* C20: get_customer, get_item and get_order leave the four tables as they
\* were, and get_order called again with no write in between returns what
\* the first call returned, the item list included.
C20_ReadsRepeatable ==
    /\ req.op \in {"get_customer", "get_item", "get_order"} => StoreUnchanged
    /\ req.op = "get_order" =>
           /\ get_order_body(DB, req.order_id).status = resp.status
           /\ get_order_body(DB, req.order_id).detail = resp.detail
           /\ get_order_body(DB, req.order_id).body = resp.body

C20_Witness ==
    /\ req.op = "get_order"
    /\ resp.status = 200
    /\ Len(resp.body.items) = 2

\* C21: for every name and every phone of the form 111-111-1111 that no
\* customer holds, create_customer succeeds and returns a record with an id no
\* row had, and get_customer on that id returns the same id, name and phone.
C21_CreateThenRead ==
    /\ req.op = "create_customer"
    /\ validate_phone(req.customer.phone).ok
    /\ \A c \in DOMAIN pre.customers : pre.customers[c].phone # req.customer.phone
    => /\ resp.status = 200
       /\ resp.body.kind = "customer"
       /\ resp.body.id \notin DOMAIN pre.customers
       /\ resp.body.name = req.customer.name
       /\ resp.body.phone = req.customer.phone
       /\ get_customer_body(DB, resp.body.id).status = 200
       /\ get_customer_body(DB, resp.body.id).body = resp.body

C21_Witness ==
    /\ req.op = "create_customer"
    /\ resp.status = 200
    /\ DOMAIN pre.customers # {}
    /\ req.customer.name = "Bob"

C22_TimestampFromStore ==
    /\ req.op = "create_order" /\ Succeeded =>
           /\ resp.body.id \notin DOMAIN pre.orders
           /\ orders[resp.body.id].timestamp = req.now
           /\ resp.body.timestamp = req.now
    /\ req.op = "update_order" /\ Succeeded =>
           /\ DOMAIN orders = DOMAIN pre.orders
           /\ resp.body.id = req.order_id
           /\ orders[req.order_id].timestamp = pre.orders[req.order_id].timestamp
           /\ resp.body.timestamp = pre.orders[req.order_id].timestamp

C22_Witness ==
    /\ req.op = "create_order"
    /\ Succeeded
    /\ req.order.timestamp # <<>>
    /\ req.order.timestamp[1] # req.now

DeletedId(op, field, k) ==
    req.op = op /\ Succeeded /\ req[field] = k

CreatedId(op, k) ==
    req.op = op /\ Succeeded /\ resp.body.id = k

\* C30: an id is never given twice within a table: once a customer, an item
\* or an order with id k has been deleted, no later create returns k.
C30_IdsNeverReused ==
    /\ \A k \in CustIds :
           [](DeletedId("delete_customer", "customer_id", k)
                  => [](~CreatedId("create_customer", k)))
    /\ \A k \in ItemIds :
           [](DeletedId("delete_item", "item_id", k) => [](~CreatedId("create_item", k)))
    /\ \A k \in OrderIds :
           [](DeletedId("delete_order", "order_id", k)
                  => [](~CreatedId("create_order", k)))

\* The order a write request addresses: the row create_order inserts, the
\* row of the path id for update_order and delete_order.
AddressedOrder ==
    IF req.op = "create_order" THEN lastrowid(pre.orders) ELSE req.order_id

\* C27: each operation writes the tables of its own entity only: the customer
\* operations leave items, orders and item_list as they were, the item
\* operations leave customers, orders and item_list, and the order operations
\* leave customers, items and every order row and item_list row of another
\* order than the addressed one.
C27_OwnTablesOnly ==
    /\ req.op \in {"create_customer", "update_customer", "delete_customer"} =>
           /\ items = pre.items
           /\ orders = pre.orders
           /\ item_list = pre.item_list
    /\ req.op \in {"create_item", "update_item", "delete_item"} =>
           /\ customers = pre.customers
           /\ orders = pre.orders
           /\ item_list = pre.item_list
    /\ req.op \in {"create_order", "update_order", "delete_order"} =>
           /\ customers = pre.customers
           /\ items = pre.items
           /\ \A o \in (DOMAIN orders \cup DOMAIN pre.orders) \ {AddressedOrder} :
                  /\ o \in DOMAIN orders /\ o \in DOMAIN pre.orders
                  /\ orders[o] = pre.orders[o]
                  /\ rows_of(item_list, o) = rows_of(pre.item_list, o)

C27_Witness ==
    /\ req.op = "update_order"
    /\ Succeeded
    /\ DOMAIN orders = {1, 2}
    /\ rows_of(item_list, req.order_id) # rows_of(pre.item_list, req.order_id)
    /\ orders[req.order_id] # pre.orders[req.order_id]

\* C28: get_order is derived from the current customer and item rows: after
\* a successful update_customer or update_item, get_order of every order of
\* that customer or holding that item returns the new name and phone, or the
\* new item name and price, in an items list as long as before.
C28_ReadsFollowUpdates ==
    /\ req.op = "update_customer" /\ Succeeded =>
           \A o \in DOMAIN orders :
               orders[o].cust_id = req.customer_id =>
                   /\ get_order_body(DB, o).status = 200
                   /\ get_order_body(DB, o).body.name = req.customer.name
                   /\ get_order_body(DB, o).body.phone = req.customer.phone
                   /\ Len(get_order_body(DB, o).body.items) =
                          Len(get_order_body(pre, o).body.items)
    /\ req.op = "update_item" /\ Succeeded =>
           \A o \in DOMAIN orders :
               req.item_id \in Elems(rows_of(item_list, o)) =>
                   /\ get_order_body(DB, o).status = 200
                   /\ [name |-> req.item.name, price |-> req.item.price]
                          \in Elems(get_order_body(DB, o).body.items)
                   /\ Len(get_order_body(DB, o).body.items) =
                          Len(get_order_body(pre, o).body.items)

C28_Witness ==
    /\ req.op = "update_item"
    /\ Succeeded
    /\ \E o \in DOMAIN orders : req.item_id \in Elems(rows_of(item_list, o))
    /\ pre.items[req.item_id].name # req.item.name
    /\ pre.items[req.item_id].price # req.item.price

\* C29: the record a successful create_order or update_order returns is the
\* record get_order returns for the same id right afterwards: id, timestamp,
\* customer name and phone, notes and item entries.
C29_ResponseIsCommitted ==
    IsOrderWrite /\ Succeeded =>
        /\ resp.body.kind = "order"
        /\ resp.body.id = AddressedOrder
        /\ get_order_body(DB, resp.body.id).status = 200
        /\ get_order_body(DB, resp.body.id).body = resp.body

C29_Witness ==
    /\ req.op = "update_order"
    /\ Succeeded
    /\ Len(resp.body.items) = 2
    /\ resp.body.notes # pre.orders[req.order_id].notes

\* Two requests that were served at the same time and are both answered.
Answered(t, u) ==
    t # u /\ threads[t].pc = "done" /\ threads[u].pc = "done"

IsThreadOrderWrite(t) == threads[t].r.op \in {"create_order", "update_order"}

\* C24: whatever the interleaving of concurrent requests, no committed state
\* holds an order whose cust_id is no customer's id: when delete_customer(c)
\* is served together with a create_order or an update_order carrying
\* cust_id = c, one of the two fails.
C24_ConcurrentDeleteCustomer ==
    /\ \A o \in DOMAIN orders : orders[o].cust_id \in DOMAIN customers
    /\ \A t, u \in Threads :
           /\ Answered(t, u)
           /\ threads[t].r.op = "delete_customer"
           /\ IsThreadOrderWrite(u)
           /\ threads[u].r.order.cust_id = threads[t].r.customer_id
           => ~(threads[t].status = 200 /\ threads[u].status = 200)

C26_ConcurrentCreates ==
    /\ \A a, b \in DOMAIN customers : customers[a].phone = customers[b].phone => a = b
    /\ \A a, b \in DOMAIN items : items[a].name = items[b].name => a = b
    /\ \A t, u \in Threads :
           /\ Answered(t, u)
           /\ \/ /\ threads[t].r.op = "create_customer"
                 /\ threads[u].r.op = "create_customer"
                 /\ threads[t].r.customer.phone = threads[u].r.customer.phone
              \/ /\ threads[t].r.op = "create_item"
                 /\ threads[u].r.op = "create_item"
                 /\ threads[t].r.item.name = threads[u].r.item.name
           => /\ {threads[t].status, threads[u].status} \subseteq {200, 400}
              /\ threads[t].status = 400 \/ threads[u].status = 400

C26_Witness ==
    \E t, u \in Threads :
        /\ Answered(t, u)
        /\ threads[t].r.op = "create_item"
        /\ threads[u].r.op = "create_item"
        /\ threads[t].r.item.name = threads[u].r.item.name
        /\ threads[t].status = 200
        /\ threads[u].status = 400
        /\ Cardinality(DOMAIN items) = 2

====
